---- MODULE Spec2Model ----
(***************************************************************************)
(* Model of ts-type-diagnostic's fix pipeline:                             *)
(*   - whenMismatchedOrMissingTypes / addShapeChoice /                     *)
(*     didYouMeanThisChildProperty: candidate generation for one           *)
(*     classified problem (specification SpecWhen);                        *)
(*   - startFixing: the diagnostics pass, the prompt loop and the final    *)
(*     apply/report step (specification Spec).                             *)
(* Both live in src/utils/promptFixes/whenMismatchedOrMissingTypes.ts,     *)
(* which holds the handler (lines 1-186) followed by theHound (188-340).   *)
(***************************************************************************)
EXTENDS Integers, Sequences, FiniteSets, TLC

\* ------------------------------------------------------------------ bounds
MaxKeys == 2
MaxDepth == 2
MaxCalls == 2
MaxDiagnostics == 3
MaxStart == 6

Keys == 1..MaxKeys

VARIABLES
  \* ---- candidate generation (whenContext and what it reaches)
  context,        \* context.errorType, functionName, captured, placeholderInfo...
  shape,          \* per property key: how source and target shapes relate
  problems,       \* whenContext.problems
  stack,          \* whenContext.stack: layers, outermost first
  typeCache,      \* what context.cache.getType(id).getSymbol()?.getDeclarations() gave
  saveNodeOfUndefined, \* what context.cache.saveNode(undefined) does
  typeAttached,   \* descriptors whose .type field was assigned
  declaredId,     \* stack[0].targetInfo.declaredId
  savedNodes,     \* nodes handed to context.cache.saveNode
  choices,        \* addChoice calls of the latest invocation
  suggestions,    \* suggest calls of the latest invocation
  history,        \* the candidates of every invocation so far
  pcWhen,         \* "ready" | "done" | "returned" | "threw"
  \* ---- startFixing
  run

whenVars == <<context, shape, problems, stack, typeCache, saveNodeOfUndefined,
              typeAttached, declaredId, savedNodes, choices, suggestions,
              history, pcWhen>>
vars == <<context, shape, problems, stack, typeCache, saveNodeOfUndefined,
          typeAttached, declaredId, savedNodes, choices, suggestions,
          history, pcWhen, run>>

\* ------------------------------------------------------------ enumerations
\* ErrorType members the handler has a case for, plus "other" for any member
\* it has none for (the switch falls through).
ErrorTypes == {"mismatch", "simpleToObject", "objectToSimple", "propMismatch",
               "targetPropMissing", "bothMissing", "both", "missingIndex", "other"}

ShapeKinds == {"propMismatch", "targetPropMissing", "bothMissing", "both"}

KeyStatus == {"sourceOnly", "targetOnly", "same", "conflict"}

DeclStates == {"noSymbol", "noDeclarations", "declared"}

TypeIds == {"problemTarget", "placeholderTarget"}

\* ------------------------------------------------------------- descriptors
\* NodeDescriptors are shared by identity; the model names each one.
Undefined == <<"undefined", 0>>
Absent == <<"absent", 0>>
placeholderInfo == <<"placeholderInfo", 0>>
LayerOf(i) == [sourceInfo |-> <<"layerSource", i>>, targetInfo |-> <<"layerTarget", i>>]

sourceMap(k) ==
  IF k \in Keys /\ shape[k] \in {"sourceOnly", "same", "conflict"}
  THEN <<"sourceMap", k>> ELSE Undefined

targetMap(k) ==
  IF k \in Keys /\ shape[k] \in {"targetOnly", "same", "conflict"}
  THEN <<"targetMap", k>> ELSE Undefined

\* typeText / isFunc of the source property descriptors.
typeTextOf(k) == IF k % 2 = 1 THEN "string" ELSE "number"
isFuncKey(k) == k % 3 = 0

\* ------------------------------------------------------- shape comparison
RECURSIVE KeysWith(_, _, _)
KeysWith(sh, status, k) ==
  IF k > MaxKeys THEN <<>>
  ELSE (IF sh[k] = status THEN <<k>> ELSE <<>>) \o KeysWith(sh, status, k + 1)

compareShapes(sh) ==
  [missing  |-> KeysWith(sh, "sourceOnly", 1),
   mismatch |-> KeysWith(sh, "conflict", 1),
   reversed |-> [missing |-> KeysWith(sh, "targetOnly", 1)]]

classifyShape(sh) ==
  LET c == compareShapes(sh) IN
  IF Len(c.missing) > 0 /\ Len(c.mismatch) > 0 THEN "both"
  ELSE IF Len(c.missing) > 0 /\ Len(c.reversed.missing) > 0 THEN "bothMissing"
  ELSE IF Len(c.missing) > 0 THEN "targetPropMissing"
  ELSE IF Len(c.reversed.missing) > 0 THEN "other"
  ELSE IF Len(c.mismatch) > 0 THEN "propMismatch"
  ELSE "other"

\* ------------------------------------------------------- the handler's parts
Edit(prime, other, type) == [primeInfo |-> prime, otherInfo |-> other, type |-> type]
Choice(header, prompt, edits) == [header |-> header, prompt |-> prompt, edits |-> edits]

\* mutant: the innermost layer, as didYouMeanThisChildProperty takes it
layerInnermost == stack[Len(stack)]

layer == stack[1]
sourceInfo == layer.sourceInfo
targetInfo == layer.targetInfo

\* lines 27-39
mismatchChoices ==
  << Choice("Fix type !== type", "Convert type",
            <<Edit(sourceInfo, targetInfo, "convertType")>>),
     Choice("Fix type !== type", "Union type",
            <<Edit(targetInfo, sourceInfo, "unionType")>>) >>

\* mutant: the advice is given inside functions too
adviceSuggestionsAlways ==
  << [text |-> IF context.errorType = "simpleToObject"
               THEN "Did you mean to use an object"
               ELSE "Did you mean to assign just one property",
      link |-> stack[1].sourceInfo] >>

\* lines 43-58
adviceSuggestions ==
  IF context.functionName = ""
  THEN << [text |-> IF context.errorType = "simpleToObject"
                    THEN "Did you mean to use an object"
                    ELSE "Did you mean to assign just one property",
           link |-> sourceInfo] >>
  ELSE <<>>

\* mutant: the placeholder's own target is ignored
targetKeyOfSourceOnly == context.sourceTargetKey

\* line 64
targetKey ==
  IF context.placeholderTarget # 0 THEN context.placeholderTarget
  ELSE context.sourceTargetKey

\* line 67
placeholderTargetInfo == targetMap(targetKey)

\* mutant: the layer's source descriptor gets its type attached too
placeholderTypedAndSource ==
  {placeholderInfo, targetMap(IF context.placeholderTarget # 0
                              THEN context.placeholderTarget
                              ELSE context.sourceTargetKey), stack[1].sourceInfo}

\* lines 71-72
placeholderTyped == {placeholderInfo, placeholderTargetInfo}

\* lines 73-79
placeholderChoices ==
  << Choice("Fix type !== type", "Convert type",
            <<Edit(placeholderInfo, placeholderTargetInfo, "convertType")>>),
     Choice("Fix type !== type", "Union type",
            <<Edit(placeholderTargetInfo, placeholderInfo, "unionType")>>) >>

\* lines 86-95
insertPropertyChoices ==
  IF context.errorType = "missingIndex"
  THEN << Choice("Fix missing property?", "Add this index to map",
                 <<Edit(targetInfo, placeholderInfo, "insertProperty")>>) >>
  ELSE << Choice("Fix missing property?", "Add optional property",
                 <<Edit(targetInfo, placeholderInfo, "insertOptionalProperty")>>) >>

\* lines 102-116
shapeHeader ==
  CASE context.errorType = "propMismatch" -> "Fix mismatched property types?"
    [] context.errorType = "targetPropMissing" -> "Fix missing properties?"
    [] context.errorType = "bothMissing" -> "Fix missing properties??"
    [] OTHER -> "Fix missing and mismatched properties?"

shapePrompt ==
  CASE context.errorType = "propMismatch" -> "Union property types"
    [] context.errorType = "targetPropMissing" -> "Add properties as optional"
    [] context.errorType = "bothMissing" -> "Add or convert properties to optional"
    [] OTHER -> "Union property types and add properties as optional"

problem == problems[1]

\* mutant: the loop runs over the wrong key list
unionEditsOverMissing ==
  [i \in 1..Len(problems[1].missing) |->
     Edit(sourceMap(problems[1].missing[i]), targetMap(problems[1].missing[i]), "unionType")]

\* lines 130-136
unionEdits ==
  [i \in 1..Len(problem.mismatch) |->
     Edit(sourceMap(problem.mismatch[i]), targetMap(problem.mismatch[i]), "unionType")]

\* lines 139-144
optionalEdits ==
  IF problem.hasReversed
  THEN [i \in 1..Len(problem.reversed.missing) |->
          Edit(targetMap(problem.reversed.missing[i]), Absent, "makeOptional")]
  ELSE <<>>

\* lines 152-158
insertEdits ==
  [i \in 1..Len(problem.missing) |->
     Edit(targetInfo, sourceMap(problem.missing[i]), "insertOptionalProperty")]

\* lines 170-186
RECURSIVE findMatch(_)
findMatch(k) ==
  IF k > MaxKeys THEN 0
  ELSE IF sourceMap(k) # Undefined /\ ~isFuncKey(k)
          /\ typeTextOf(k) = context.lastTargetTypeText THEN k
  ELSE findMatch(k + 1)

didYouMeanThisChildProperty ==
  LET last == stack[Len(stack)]
      match == findMatch(1) IN
  IF match # 0
  THEN << [text |-> "Did you mean to use this child property", link |-> last.targetInfo] >>
  ELSE <<>>

\* ------------------------------------------------------------ the handler
\* One invocation of whenMismatchedOrMissingTypes, addShapeChoice included.
\* decl and save are what the node cache answers when it is asked.
Finish(pc, ch, sg, typed, did, saved) ==
  /\ pcWhen' = pc
  /\ choices' = ch
  /\ suggestions' = sg
  /\ typeAttached' = typeAttached \cup typed
  /\ declaredId' = did
  /\ savedNodes' = savedNodes \o saved
  /\ history' = Append(history, ch)

Asked(tid, decl) ==
  /\ typeCache[tid] \in {"unknown", decl}
  /\ typeCache' = [typeCache EXCEPT ![tid] = decl]

AskedSave(save) ==
  /\ saveNodeOfUndefined \in {"unknown", save}
  /\ saveNodeOfUndefined' = save

placeholderCase ==
  IF placeholderTargetInfo # Undefined
  THEN /\ Finish("done", placeholderChoices, <<>>, placeholderTyped, declaredId, <<>>)
       /\ UNCHANGED <<typeCache, saveNodeOfUndefined>>
  ELSE IF context.placeholderTarget = 0
  THEN \* line 81: placeholderInfo.placeholderTarget is undefined
       /\ Finish("threw", <<>>, <<>>, {}, declaredId, <<>>)
       /\ UNCHANGED <<typeCache, saveNodeOfUndefined>>
  ELSE \E decl \in DeclStates :
         /\ Asked("placeholderTarget", decl)
         /\ UNCHANGED saveNodeOfUndefined
         /\ IF decl = "declared"
            THEN Finish("done", insertPropertyChoices, <<>>, {}, "declaration",
                        <<"declaration">>)
            ELSE \* line 83 (declarations undefined) or line 84 (declaration undefined)
                 Finish("threw", <<>>, <<>>, {}, declaredId, <<>>)

addShapeChoice ==
  LET said == didYouMeanThisChildProperty
      nodeInfos == unionEdits \o optionalEdits IN
  IF Len(problem.missing) = 0
  THEN /\ Finish("done",
                 IF Len(nodeInfos) > 0
                 THEN <<Choice(shapeHeader, shapePrompt, nodeInfos)>> ELSE <<>>,
                 said, {}, declaredId, <<>>)
       /\ UNCHANGED <<typeCache, saveNodeOfUndefined>>
  ELSE \E decl \in DeclStates, save \in {"throws", "returns"} :
         /\ Asked("problemTarget", decl)
         /\ CASE decl = "noSymbol" ->
                   \* line 150: declarations is undefined
                   /\ Finish("threw", <<>>, said, {}, declaredId, <<>>)
                   /\ UNCHANGED saveNodeOfUndefined
              [] decl = "noDeclarations" /\ save = "throws" ->
                   /\ AskedSave(save)
                   /\ Finish("threw", <<>>, said, {}, declaredId, <<>>)
              [] decl = "noDeclarations" /\ save = "returns" ->
                   /\ AskedSave(save)
                   /\ Finish("done",
                             <<Choice(shapeHeader, shapePrompt, nodeInfos \o insertEdits)>>,
                             said, {}, "undefined", <<"undefined">>)
              [] OTHER ->
                   /\ UNCHANGED saveNodeOfUndefined
                   /\ Finish("done",
                             <<Choice(shapeHeader, shapePrompt, nodeInfos \o insertEdits)>>,
                             said, {}, "declaration", <<"declaration">>)

whenMismatchedOrMissingTypes ==
  /\ pcWhen \in {"ready", "done", "returned", "threw"}
  /\ Len(history) < MaxCalls
  /\ UNCHANGED <<context, shape, problems, stack, run>>
  /\ IF context.captured \/ Len(problems) = 0
     THEN /\ Finish("returned", <<>>, <<>>, {}, declaredId, <<>>)
          /\ UNCHANGED <<typeCache, saveNodeOfUndefined>>
     ELSE CASE context.errorType = "mismatch" ->
                 /\ Finish("done", mismatchChoices, <<>>, {}, declaredId, <<>>)
                 /\ UNCHANGED <<typeCache, saveNodeOfUndefined>>
            [] context.errorType \in {"simpleToObject", "objectToSimple"} ->
                 /\ Finish("done", <<>>, adviceSuggestions, {}, declaredId, <<>>)
                 /\ UNCHANGED <<typeCache, saveNodeOfUndefined>>
            [] context.errorType \notin {"mismatch", "simpleToObject", "objectToSimple"}
               /\ context.isPlaceholder ->
                 placeholderCase
            [] context.errorType \in ShapeKinds /\ ~context.isPlaceholder ->
                 addShapeChoice
            [] OTHER ->
                 /\ Finish("done", <<>>, <<>>, {}, declaredId, <<>>)
                 /\ UNCHANGED <<typeCache, saveNodeOfUndefined>>

\* ------------------------------------------------------------------- inputs
Contexts ==
  { c \in [errorType : ErrorTypes, functionName : {"", "fn"}, captured : BOOLEAN,
           isPlaceholder : BOOLEAN, placeholderTarget : 0..MaxKeys,
           sourceTargetKey : 0..MaxKeys, lastTargetTypeText : {"string", "Foo"}] :
      ~c.isPlaceholder => (c.placeholderTarget = 0 /\ c.sourceTargetKey = 0) }

IdleRun == [pc |-> "idle"]

InitWhen ==
  /\ context \in Contexts
  /\ shape \in [Keys -> KeyStatus]
  /\ context.errorType \in ShapeKinds => context.errorType = classifyShape(shape)
  /\ \E n \in 0..1, hasReversed \in BOOLEAN :
       /\ n = 0 => (\A k \in Keys : shape[k] = "same")
       /\ ~hasReversed => (\A k \in Keys : shape[k] # "targetOnly")
       /\ problems = [i \in 1..n |-> [missing |-> compareShapes(shape).missing,
                                      mismatch |-> compareShapes(shape).mismatch,
                                      reversed |-> compareShapes(shape).reversed,
                                      hasReversed |-> hasReversed]]
  /\ \E d \in 1..MaxDepth : stack = [i \in 1..d |-> LayerOf(i)]
  /\ typeCache = [t \in TypeIds |-> "unknown"]
  /\ saveNodeOfUndefined = "unknown"
  /\ typeAttached = {}
  /\ declaredId = "unset"
  /\ savedNodes = <<>>
  /\ choices = <<>>
  /\ suggestions = <<>>
  /\ history = <<>>
  /\ pcWhen = "ready"
  /\ run = IdleRun

NextWhen == whenMismatchedOrMissingTypes

SpecWhen == InitWhen /\ [][NextWhen]_vars

\* ============================================================ startFixing
\* line 207
ignoreTheseErrors == {6133, 2304, 2448, 2454}

\* Codes findProblems has a shape for, and one it has none for.
SupportedCodes == {2322, 2345}
UnsupportedCodes == {7053}
Codes == SupportedCodes \cup UnsupportedCodes \cup {6133}

\* The files named on the command line, and what a diagnostic's file can be.
fileNames == {"a.ts", "b.ts"}
NoFile == "undefined"
DiagnosticFiles == fileNames \cup {"lib.d.ts", NoFile}
Starts == 0..MaxStart

\* cache.startToNode[start]: a node begins at every offset but the last.
startToNode(start) == start >= 1 /\ start < MaxStart

\* getClosestTarget(checker, errorNode).getStart(): the enclosing target of a
\* node at an even offset begins one character earlier.
getClosestTarget(start) == IF start % 2 = 0 THEN start - 1 ELSE start

\* findProblems: one entry for a code it has a shape for, none otherwise.
findProblems(code, file, problemBeg) ==
  IF code \in SupportedCodes
  THEN << [file |-> file, problemBeg |-> problemBeg, code |-> code] >>
  ELSE <<>>

\* mutant: the unsupported diagnostic is not recorded
missingSupportDropped(code, file, problemBeg) == <<>>

\* lines 301-304
missingSupportFor(code, file, problemBeg) ==
  << [line |-> "missing support", code |-> code, problemBeg |-> problemBeg, file |-> file],
     [line |-> "link", code |-> code, problemBeg |-> problemBeg, file |-> file] >>

\* lines 294-306: the body guarded by !processedNodes.has(problemBeg)
classifyOnce(r, code, file, problemBeg) ==
  LET found == findProblems(code, file, problemBeg) IN
  IF problemBeg \in r.processedNodes THEN r
  ELSE IF Len(found) > 0
  THEN [r EXCEPT !.allProblems = r.allProblems \o found,
                 !.processedNodes = r.processedNodes \cup {problemBeg},
                 !.hadProblem = TRUE,
                 !.classified = r.classified \o
                     <<[file |-> file, problemBeg |-> problemBeg, empty |-> FALSE]>>]
  ELSE [r EXCEPT !.missingSupport = r.missingSupport \o missingSupportFor(code, file, problemBeg),
                 !.unsupported = r.unsupported \cup
                     {[code |-> code, file |-> file, problemBeg |-> problemBeg]},
                 !.classified = r.classified \o
                     <<[file |-> file, problemBeg |-> problemBeg, empty |-> TRUE]>>]

\* lines 279-311: one iteration of semanticDiagnostics.forEach
forEachBody(r, code, file, start) ==
  IF file = NoFile \/ file \notin fileNames THEN r
  ELSE
    LET cached == [r EXCEPT !.fileCache = r.fileCache \cup {file}] IN
    IF start = 0 \/ ~startToNode(start) THEN cached
    ELSE
      LET handled ==
            IF code \in ignoreTheseErrors THEN cached
            ELSE classifyOnce(
                   [cached EXCEPT !.hadProblem = FALSE,
                                  !.fed = IF code \in SupportedCodes
                                          THEN cached.fed \cup
                                               {[file |-> file,
                                                 problemBeg |-> getClosestTarget(start)]}
                                          ELSE cached.fed],
                   code, file, getClosestTarget(start))
      IN [handled EXCEPT !.anyProblem = handled.anyProblem \/ handled.hadProblem]

forEachDiagnostic ==
  /\ run.pc = "diagnostics"
  /\ run.count < MaxDiagnostics
  /\ \E code \in Codes, file \in DiagnosticFiles, start \in Starts :
       run' = [forEachBody(run, code, file, start) EXCEPT !.count = run.count + 1]
  /\ UNCHANGED whenVars

\* the forEach has consumed every diagnostic
diagnosticsDone ==
  /\ run.pc = "diagnostics"
  /\ run' = [run EXCEPT !.pc = "prompting"]
  /\ UNCHANGED whenVars

\* showPromptFixes: the user's decision for one problem; a selection appends the
\* chosen candidate's edits to the pending edits; the result is "the user quit".
Decisions == {"select", "skip", "quit"}

showPromptFixes(r, decision) ==
  [r EXCEPT !.pendingEdits =
              IF decision = "select"
              THEN r.pendingEdits \o <<[problem |-> r.index,
                                        file |-> r.allProblems[r.index].file]>>
              ELSE r.pendingEdits,
            !.anyQuit = (decision = "quit"),
            !.quitAt = IF decision = "quit" THEN r.index ELSE r.quitAt]

\* lines 316-325: one iteration of the prompt loop
promptLoop ==
  /\ run.pc = "prompting"
  /\ run.index <= Len(run.allProblems)
  /\ ~run.anyQuit
  /\ \E decision \in Decisions :
       run' = [showPromptFixes(run, decision) EXCEPT !.index = run.index + 1]
  /\ UNCHANGED whenVars

\* applyFixes(fileCache): patches and saves the pending edits
applyFixes(r) ==
  [r EXCEPT !.applyFixesCalls = r.applyFixesCalls + 1, !.appliedEdits = r.pendingEdits]

\* mutant: no early return after Quit
afterLoopWithoutReturn(r) ==
  LET applied == IF r.anyProblem THEN applyFixes(r) ELSE r IN
  [applied EXCEPT !.shown =
     IF Len(r.missingSupport) > 0 THEN r.missingSupport
     ELSE IF ~r.anyProblem THEN << [line |-> "--no squirrels--", code |-> 0,
                                    problemBeg |-> 0, file |-> NoFile] >>
     ELSE <<>>]

\* lines 326-339
afterLoop(r) ==
  IF r.anyQuit THEN r
  ELSE
    LET applied == IF r.anyProblem THEN applyFixes(r) ELSE r IN
    [applied EXCEPT !.shown =
       IF Len(r.missingSupport) > 0 THEN r.missingSupport
       ELSE IF ~r.anyProblem THEN << [line |-> "--no squirrels--", code |-> 0,
                                      problemBeg |-> 0, file |-> NoFile] >>
       ELSE <<>>]

finishRun ==
  /\ run.pc = "prompting"
  /\ run.anyQuit \/ run.index > Len(run.allProblems)
  /\ run' = [afterLoop(run) EXCEPT !.pc = "done"]
  /\ UNCHANGED whenVars

\* lines 263-278, 315
InitialRun ==
  [pc |-> "diagnostics", count |-> 0,
   hadProblem |-> FALSE, anyProblem |-> FALSE,
   fileCache |-> {}, missingSupport |-> <<>>, processedNodes |-> {},
   allProblems |-> <<>>, anyQuit |-> FALSE, index |-> 1,
   pendingEdits |-> <<>>, applyFixesCalls |-> 0, appliedEdits |-> <<>>,
   shown |-> <<>>,
   \* history of the run, for stating properties
   fed |-> {}, classified |-> <<>>, unsupported |-> {}, quitAt |-> 0]

Init ==
  /\ run = InitialRun
  /\ context = [errorType |-> "other", functionName |-> "", captured |-> TRUE,
                isPlaceholder |-> FALSE, placeholderTarget |-> 0,
                sourceTargetKey |-> 0, lastTargetTypeText |-> "Foo"]
  /\ shape = [k \in Keys |-> "same"]
  /\ problems = <<>>
  /\ stack = <<LayerOf(1)>>
  /\ typeCache = [t \in TypeIds |-> "unknown"]
  /\ saveNodeOfUndefined = "unknown"
  /\ typeAttached = {}
  /\ declaredId = "unset"
  /\ savedNodes = <<>>
  /\ choices = <<>>
  /\ suggestions = <<>>
  /\ history = <<>>
  /\ pcWhen = "idle"

Next == forEachDiagnostic \/ diagnosticsDone \/ promptLoop \/ finishRun

Spec == Init /\ [][Next]_vars

\* ================================================================ properties
\* The handler ran past its entry check (line 18) at least once.
Ran == Len(history) > 0 /\ ~context.captured /\ Len(problems) > 0

EditsOf(ch) == [i \in DOMAIN ch |-> ch[i].edits]

InsertTypes == {"insertProperty", "insertOptionalProperty"}

\* the key line 64 resolves, spelled out from the context
ResolvedKey ==
  IF context.placeholderTarget # 0 THEN context.placeholderTarget
  ELSE context.sourceTargetKey

ResolvedTarget ==
  IF ResolvedKey \in Keys /\ shape[ResolvedKey] # "sourceOnly"
  THEN <<"targetMap", ResolvedKey>> ELSE Undefined

PlaceholderPair ==
  << <<[primeInfo |-> placeholderInfo, otherInfo |-> ResolvedTarget, type |-> "convertType"]>>,
     <<[primeInfo |-> ResolvedTarget, otherInfo |-> placeholderInfo, type |-> "unionType"]>> >>

MessageShown(u) ==
  \E i \in DOMAIN run.shown :
    /\ run.shown[i].line = "missing support"
    /\ run.shown[i].code = u.code
    /\ run.shown[i].file = u.file
    /\ run.shown[i].problemBeg = u.problemBeg

MessageRecorded(u) ==
  \E i \in DOMAIN run.missingSupport :
    /\ run.missingSupport[i].line = "missing support"
    /\ run.missingSupport[i].code = u.code
    /\ run.missingSupport[i].file = u.file
    /\ run.missingSupport[i].problemBeg = u.problemBeg

EntriesAt(p) ==
  {i \in DOMAIN run.allProblems :
     run.allProblems[i].file = p.file /\ run.allProblems[i].problemBeg = p.problemBeg}

C2_OneProblemPerFileAndOffset ==
  \A p \in run.fed : Cardinality(EntriesAt(p)) = 1

C5_BothMissingEdits ==
  (Ran /\ context.errorType = "bothMissing" /\ ~context.isPlaceholder)
    => /\ pcWhen = "done"
       /\ Len(choices) = 1
       /\ choices[1].edits =
            [i \in 1..Len(problems[1].reversed.missing) |->
               [primeInfo |-> <<"targetMap", problems[1].reversed.missing[i]>>,
                otherInfo |-> Absent, type |-> "makeOptional"]]
            \o
            [i \in 1..Len(problems[1].missing) |->
               [primeInfo |-> stack[1].targetInfo,
                otherInfo |-> <<"sourceMap", problems[1].missing[i]>>,
                type |-> "insertOptionalProperty"]]

\* ---------------------------------------------------------------------- C6
\* C6: for a mismatch problem the handler adds exactly two candidates, first a
\* single convertType edit from stack[0].sourceInfo to stack[0].targetInfo,
\* then a single unionType edit from stack[0].targetInfo to stack[0].sourceInfo.
C6_MismatchConvertThenUnion ==
  (Ran /\ context.errorType = "mismatch")
    => /\ pcWhen = "done"
       /\ EditsOf(choices) =
            << <<[primeInfo |-> stack[1].sourceInfo, otherInfo |-> stack[1].targetInfo,
                  type |-> "convertType"]>>,
               <<[primeInfo |-> stack[1].targetInfo, otherInfo |-> stack[1].sourceInfo,
                  type |-> "unionType"]>> >>

C6_Witness ==
  /\ Ran /\ context.errorType = "mismatch" /\ Len(stack) = 2
  /\ pcWhen = "done" /\ Len(choices) = 2

\* ---------------------------------------------------------------------- C7
\* C7 (as claimed): for a simpleToObject or objectToSimple problem no candidate
\* is added and an advisory suggestion is emitted, with or without a
\* functionName.
C7_AdviceAlwaysEmitted ==
  (Ran /\ context.errorType \in {"simpleToObject", "objectToSimple"})
    => (choices = <<>> /\ Len(suggestions) = 1)

\* C7 (amended): for a simpleToObject or objectToSimple problem that reaches
\* the switch no candidate is added, and the advisory suggestion is emitted
\* exactly when the problem carries no functionName.
C7_AdviceOnlyOutsideFunctions ==
  (Ran /\ context.errorType \in {"simpleToObject", "objectToSimple"})
    => /\ pcWhen = "done"
       /\ choices = <<>>
       /\ context.functionName = "" => Len(suggestions) = 1
       /\ context.functionName # "" => suggestions = <<>>

C7_Witness ==
  /\ Ran /\ context.errorType = "objectToSimple" /\ context.functionName # ""
  /\ pcWhen = "done" /\ choices = <<>> /\ suggestions = <<>>

\* ---------------------------------------------------------------------- C8
\* C8 (as claimed): when the target type has no resolvable declaration, or an
\* unresolved placeholder has no placeholderTarget, generation completes
\* without raising and adds no insert-property candidate.
C8_MissingDeclarationIsAbsence ==
  (Ran /\ (\/ \E t \in TypeIds : typeCache[t] \in {"noSymbol", "noDeclarations"}
           \/ /\ context.isPlaceholder
              /\ context.errorType \notin {"mismatch", "simpleToObject", "objectToSimple"}
              /\ ResolvedTarget = Undefined
              /\ context.placeholderTarget = 0))
    => /\ pcWhen = "done"
       /\ \A i \in DOMAIN choices : \A j \in DOMAIN choices[i].edits :
            choices[i].edits[j].type \notin InsertTypes

\* ---------------------------------------------------------------------- C9
\* C9 (as claimed): generation mutates nothing it reads, and a second call on
\* the same input adds the same candidates.
C9_GenerationIsPure ==
  /\ typeAttached = {}
  /\ declaredId = "unset"
  /\ savedNodes = <<>>
  /\ \A i, j \in DOMAIN history : history[i] = history[j]

\* C9 (amended): generation leaves the problem, its key lists, the stack and
\* the context unchanged and a second call adds the same candidates; but it
\* assigns .type on placeholderInfo and on the placeholder's target descriptor
\* when the placeholder's target key resolves, and it sets
\* stack[0].targetInfo.declaredId (saving the declaration in the node cache)
\* whenever it builds insert-property edits. It mutates nothing else.
C9_OnlyLazyAttachments ==
  [][ /\ problems' = problems /\ stack' = stack
      /\ context' = context /\ shape' = shape
      /\ typeAttached' \subseteq
           (typeAttached \cup
              IF /\ context.isPlaceholder
                 /\ context.errorType \notin {"mismatch", "simpleToObject", "objectToSimple"}
                 /\ ResolvedTarget # Undefined
              THEN {placeholderInfo, ResolvedTarget} ELSE {})
      /\ (declaredId' # declaredId \/ savedNodes' # savedNodes)
           => \E i \in DOMAIN choices' : \E j \in DOMAIN choices'[i].edits :
                choices'[i].edits[j].type \in InsertTypes
      /\ Len(history) > 0 => history'[Len(history')] = history[Len(history)]
    ]_vars

C9_Witness ==
  /\ Len(history) = 2 /\ history[1] = history[2]
  /\ pcWhen = "done"
  /\ typeAttached = {placeholderInfo, <<"targetMap", 1>>}
  /\ Len(choices) = 2

\* --------------------------------------------------------------------- C10
\* C10 (as claimed): for a placeholder source whose resolved target key is in
\* the target map the handler adds exactly the convert/union pair anchored at
\* placeholderInfo and targetMap[targetKey], whatever the errorKind.
C10_PlaceholderPairForEveryKind ==
  (Ran /\ context.isPlaceholder /\ ResolvedTarget # Undefined)
    => (pcWhen = "done" /\ EditsOf(choices) = PlaceholderPair)

\* C10 (amended): the same, for every errorKind other than mismatch,
\* simpleToObject and objectToSimple, whose cases come first in the switch.
C10_PlaceholderPairForLaterKinds ==
  (/\ Ran /\ context.isPlaceholder /\ ResolvedTarget # Undefined
   /\ context.errorType \notin {"mismatch", "simpleToObject", "objectToSimple"})
    => (pcWhen = "done" /\ EditsOf(choices) = PlaceholderPair)

C10_Witness ==
  /\ Ran /\ context.isPlaceholder /\ context.errorType = "targetPropMissing"
  /\ context.placeholderTarget = 2 /\ context.sourceTargetKey = 1
  /\ ResolvedTarget = <<"targetMap", 2>>
  /\ pcWhen = "done" /\ Len(choices) = 2

====
